---- MODULE Spec2Model ----
(***************************************************************************)
(* BubbleMap (src/app.py): a Streamlit script that turns the text of an    *)
(* uploaded PDF into three mind maps (concept, structure, argument) by     *)
(* prompting a language model, salvaging JSON from its answer, caching the *)
(* results in st.session_state under the MD5 of the file, and rendering    *)
(* the selected map as a node/link graph.                                  *)
(*                                                                         *)
(* Text is modelled as a sequence of lexemes: the six JSON punctuation     *)
(* marks, a whitespace lexeme, prose words (text that is no JSON lexeme)   *)
(* and string literals (every other lexeme; its content is the lexeme).    *)
(* String literals hold no brace or bracket.                               *)
(*                                                                         *)
(* Python values are records [t, s, items]: t is the type tag, s the       *)
(* content of a str, items the elements of a list or the key/value pairs   *)
(* of a dict in insertion order.  A raised exception is the value          *)
(* Raise(name): an operator that yields it did not return.                 *)
(***************************************************************************)
EXTENDS Integers, Sequences, FiniteSets, TLC

VARIABLES
    \* --- one call of the salvage parser or of an LLM call wrapper
    raw,            \* the collaborator's outcome: [ok, text]
    op,             \* "input" before the call, then the name of the function called
    result,         \* what the call returned (or raised)
    \* --- the graph pipeline: concept_map_to_tree, flatten_tree_to_nodes_links
    tree,           \* the tree handed to create_multilevel_mindmap_html
    center_title,   \* its center_title argument
    work,           \* pending recursive calls of flatten_tree_to_nodes_links
    nodes,          \* the nodes list
    links,          \* the links list
    gpc,            \* position in the pipeline
    \* --- the Streamlit session
    uploaded_file,  \* the file_uploader widget's value
    session_state,  \* st.session_state
    pc,             \* position of the current script run
    llm,            \* per mode: the collaborator's outcome in the current run
    origin,         \* per session key: the document its value was derived from
    calls,          \* per mode: calls of get_*_map since file_hash last changed
    same_doc,       \* the current run found the uploaded file's hash in file_hash
    exc,            \* the exception that ended the most recent run, or "none"
    rendered        \* what the most recent run displayed

parseVars == <<raw, op, result>>
graphVars == <<tree, center_title, work, nodes, links, gpc>>
sessionVars == <<uploaded_file, session_state, pc, llm, origin, calls, same_doc, exc,
                 rendered>>
vars == <<raw, op, result, tree, center_title, work, nodes, links, gpc,
          uploaded_file, session_state, pc, llm, origin, calls, same_doc, exc, rendered>>

(***************************************************************************)
(* Bounds of the model.                                                    *)
(***************************************************************************)
MaxLen == 4         \* every lexeme sequence up to this length is an input
MaxNoise == 1       \* lexemes of commentary before and after an embedded value
MaxEntries == 2     \* entries of a concept list
MaxNodes == 4       \* nodes of a tree
NumDocs == 2        \* distinct document contents

MAX_TERMS == 16

(***************************************************************************)
(* Python values.                                                          *)
(***************************************************************************)
NoneV == [t |-> "none", s |-> "", items |-> <<>>]
StrV(x) == [t |-> "str", s |-> x, items |-> <<>>]
ListV(xs) == [t |-> "list", s |-> "", items |-> xs]
DictV(ps) == [t |-> "dict", s |-> "", items |-> ps]
Pair(key, val) == [k |-> key, v |-> val]
Raise(name) == [t |-> "raise", s |-> name, items |-> <<>>]

Raised(v) == v.t = "raise"

\* bool(v): None, "", [] and {} are falsy
Truthy(v) ==
    CASE v.t = "none" -> FALSE
      [] v.t = "str" -> v.s # ""
      [] OTHER -> v.items # <<>>

HasKey(d, key) == \E i \in 1..Len(d.items) : d.items[i].k = key

\* d[key] of a dict that has the key
Lookup(d, key) ==
    d.items[CHOOSE i \in 1..Len(d.items) : d.items[i].k = key].v

\* d.get(key, default)
DictGet(d, key, default) == IF HasKey(d, key) THEN Lookup(d, key) ELSE default

\* d[key] = val on the pairs of a dict: a present key keeps its place
DictPut(ps, key, val) ==
    IF \E i \in 1..Len(ps) : ps[i].k = key
    THEN [i \in 1..Len(ps) |-> IF ps[i].k = key THEN Pair(key, val) ELSE ps[i]]
    ELSE Append(ps, Pair(key, val))

(***************************************************************************)
(* Lexemes and json.loads.                                                 *)
(***************************************************************************)
Punct == {"{", "}", "[", "]", ",", ":"}
Ws == " "
Prose == {"Here you go:", "Thanks!"}
IsStrTok(tok) == tok \notin Punct /\ tok \notin Prose /\ tok # Ws

RECURSIVE StripWs(_)
StripWs(toks) ==
    IF toks = <<>> THEN <<>>
    ELSE IF Head(toks) = Ws THEN StripWs(Tail(toks))
    ELSE <<Head(toks)>> \o StripWs(Tail(toks))

Bad == [ok |-> FALSE, val |-> NoneV, next |-> 0]
Good(v, n) == [ok |-> TRUE, val |-> v, next |-> n]
At(toks, i, tok) == i <= Len(toks) /\ toks[i] = tok

RECURSIVE ParseValue(_, _), ParseElems(_, _, _), ParseMembers(_, _, _)
\* one JSON value starting at lexeme i
ParseValue(toks, i) ==
    IF i > Len(toks) THEN Bad
    ELSE IF toks[i] = "[" THEN
        IF At(toks, i + 1, "]") THEN Good(ListV(<<>>), i + 2)
        ELSE ParseElems(toks, i + 1, <<>>)
    ELSE IF toks[i] = "{" THEN
        IF At(toks, i + 1, "}") THEN Good(DictV(<<>>), i + 2)
        ELSE ParseMembers(toks, i + 1, <<>>)
    ELSE IF IsStrTok(toks[i]) THEN Good(StrV(toks[i]), i + 1)
    ELSE Bad

\* the elements of an array after "[" or ","
ParseElems(toks, i, acc) ==
    LET r == ParseValue(toks, i) IN
    IF ~r.ok THEN Bad
    ELSE IF At(toks, r.next, ",") THEN ParseElems(toks, r.next + 1, Append(acc, r.val))
    ELSE IF At(toks, r.next, "]") THEN Good(ListV(Append(acc, r.val)), r.next + 1)
    ELSE Bad

\* the members of an object after "{" or ",": a later duplicate key wins
ParseMembers(toks, i, acc) ==
    IF ~(i + 1 <= Len(toks) /\ IsStrTok(toks[i]) /\ toks[i + 1] = ":") THEN Bad
    ELSE LET r == ParseValue(toks, i + 2) IN
        IF ~r.ok THEN Bad
        ELSE IF At(toks, r.next, ",")
            THEN ParseMembers(toks, r.next + 1, DictPut(acc, toks[i], r.val))
        ELSE IF At(toks, r.next, "}")
            THEN Good(DictV(DictPut(acc, toks[i], r.val)), r.next + 1)
        ELSE Bad

\* json.loads(text): [ok, val]; ok is FALSE where json.loads raises
Loads(toks) ==
    LET s == StripWs(toks)
        r == ParseValue(s, 1)
    IN IF r.ok /\ r.next = Len(s) + 1
       THEN [ok |-> TRUE, val |-> r.val]
       ELSE [ok |-> FALSE, val |-> NoneV]

(***************************************************************************)
(* robust_json_extract.                                                    *)
(***************************************************************************)
Positions(toks, tok) == {i \in 1..Len(toks) : toks[i] = tok}
MinOf(S) == CHOOSE i \in S : \A j \in S : i <= j
MaxOf(S) == CHOOSE i \in S : \A j \in S : j <= i

\* re.search of open [\s\S]+ close: from the first open lexeme to the last close
\* lexeme with at least one lexeme between them; <<>> when there is no match
ReSearch(toks, open, close) ==
    LET os == Positions(toks, open)
        cs == Positions(toks, close)
    IN IF os = {} \/ cs = {} THEN <<>>
       ELSE IF MaxOf(cs) >= MinOf(os) + 2 THEN SubSeq(toks, MinOf(os), MaxOf(cs))
       ELSE <<>>

\* faulty variant: the failure to parse the slice is not caught
robust_json_extract_uncaught(toks, want_list) ==
    LET o == ReSearch(toks, "{", "}")
        m == IF o = <<>> /\ want_list THEN ReSearch(toks, "[", "]") ELSE o
    IN IF m # <<>> /\ ~Loads(m).ok THEN Raise("JSONDecodeError")
       ELSE IF m # <<>> THEN Loads(m).val
       ELSE IF Loads(toks).ok THEN Loads(toks).val
       ELSE NoneV

robust_json_extract(toks, want_list) ==
    LET o == ReSearch(toks, "{", "}")
        m == IF o = <<>> /\ want_list THEN ReSearch(toks, "[", "]") ELSE o
    IN IF m # <<>> /\ Loads(m).ok THEN Loads(m).val
       ELSE IF Loads(toks).ok THEN Loads(toks).val
       ELSE NoneV

(***************************************************************************)
(* The LLM call wrappers.  resp is the collaborator's outcome: ok is FALSE *)
(* where client.responses.create raises, else text is response.output_text.*)
(***************************************************************************)
Min(a, b) == IF a <= b THEN a ELSE b

\* result[:n]: a list or a str is sliced (every string literal is shorter than
\* MAX_TERMS characters), a dict raises TypeError
Slice(v, n) ==
    CASE v.t = "list" -> ListV(SubSeq(v.items, 1, Min(n, Len(v.items))))
      [] v.t = "str" -> v
      [] OTHER -> Raise("TypeError")

get_concept_map(resp, max_terms) ==
    IF ~resp.ok THEN Raise("APIError")
    ELSE LET r == robust_json_extract(resp.text, TRUE) IN
         IF Raised(r) THEN r
         ELSE IF ~Truthy(r) THEN ListV(<<>>)
         ELSE Slice(r, max_terms)

get_structure_map(resp) ==
    IF ~resp.ok THEN Raise("APIError")
    ELSE LET r == robust_json_extract(resp.text, FALSE) IN
         IF Raised(r) THEN r
         ELSE IF ~Truthy(r) THEN DictV(<<>>)
         ELSE r

get_argument_map(resp) ==
    IF ~resp.ok THEN Raise("APIError")
    ELSE LET r == robust_json_extract(resp.text, FALSE) IN
         IF Raised(r) THEN r
         ELSE IF ~Truthy(r) THEN DictV(<<>>)
         ELSE r

(***************************************************************************)
(* Texts the collaborator may return.                                      *)
(***************************************************************************)
RECURSIVE Dumps(_), DumpElems(_), DumpMembers(_)
\* the JSON text of a value, without whitespace
Dumps(v) ==
    CASE v.t = "str" -> <<v.s>>
      [] v.t = "list" -> <<"[">> \o DumpElems(v.items) \o <<"]">>
      [] v.t = "dict" -> <<"{">> \o DumpMembers(v.items) \o <<"}">>

DumpElems(xs) ==
    IF xs = <<>> THEN <<>>
    ELSE IF Len(xs) = 1 THEN Dumps(xs[1])
    ELSE Dumps(xs[1]) \o <<",">> \o DumpElems(Tail(xs))

DumpMembers(ps) ==
    IF ps = <<>> THEN <<>>
    ELSE IF Len(ps) = 1 THEN <<ps[1].k, ":">> \o Dumps(ps[1].v)
    ELSE <<ps[1].k, ":">> \o Dumps(ps[1].v) \o <<",">> \o DumpMembers(Tail(ps))

RECURSIVE SeqsUpTo(_, _)
\* every sequence over S of length at most n
SeqsUpTo(S, n) ==
    IF n = 0 THEN {<<>>}
    ELSE LET shorter == SeqsUpTo(S, n - 1)
         IN shorter \cup {Append(q, x) : q \in shorter, x \in S}

Commentary == Prose \cup {Ws}
Alphabet == Punct \cup {Ws, "Here you go:", "s"}

Objs == {DictV(<<>>), DictV(<<Pair("s", StrV("s"))>>)}
Elems == Objs \cup {StrV("s"), ListV(<<>>)}
Arrays == {ListV(q) : q \in SeqsUpTo(Elems, MaxEntries)}
Embedded == Arrays \cup Objs \cup {DictV(<<Pair("s", a)>>) : a \in Arrays}

\* commentary, one JSON value, commentary
Wrapped(values) ==
    {p \o Dumps(v) \o q : p \in SeqsUpTo(Commentary, MaxNoise),
                          v \in values,
                          q \in SeqsUpTo(Commentary, MaxNoise)}

Texts == SeqsUpTo(Alphabet, MaxLen) \cup Wrapped(Embedded)

Completion(text) == [ok |-> TRUE, text |-> text]
Unavailable == [ok |-> FALSE, text |-> <<>>]

(***************************************************************************)
(* concept_map_to_tree, flatten_tree_to_nodes_links and the root marking   *)
(* of create_multilevel_mindmap_html.                                      *)
(***************************************************************************)
\* what item["term"], item["tooltip"] raise for one glossary item, "" if nothing
ItemError(item) ==
    IF item.t # "dict" THEN "TypeError"
    ELSE IF ~HasKey(item, "term") \/ ~HasKey(item, "tooltip") THEN "KeyError"
    ELSE ""

\* the items the comprehension "for item in glossary" visits: the elements of a
\* list, the keys of a dict, the characters of a str (one stands for them all)
Iterate(v) ==
    CASE v.t = "list" -> v.items
      [] v.t = "dict" -> [i \in 1..Len(v.items) |-> StrV(v.items[i].k)]
      [] v.t = "str" -> IF v.s = "" THEN <<>> ELSE <<StrV(v.s)>>

TermNode(item) ==
    DictV(<<Pair("name", Lookup(item, "term")), Pair("tooltip", Lookup(item, "tooltip"))>>)

concept_map_to_tree(glossary, root_title) ==
    IF glossary.t = "none" THEN Raise("TypeError")
    ELSE LET items == Iterate(glossary)
             bad == {i \in 1..Len(items) : ItemError(items[i]) # ""}
         IN IF bad # {} THEN Raise(ItemError(items[MinOf(bad)]))
            ELSE DictV(<<Pair("name", root_title),
                         Pair("tooltip", StrV("Key concepts from the document.")),
                         Pair("children", ListV([i \in 1..Len(items) |-> TermNode(items[i])]))>>)

\* one pending call flatten_tree_to_nodes_links(tree, parent_name, nodes, links)
Frame(t, parent) == [tree |-> t, parent_name |-> parent]

\* the children the loop "for child in tree.get('children', []) or []" visits
Children(t) ==
    LET c == DictGet(t, "children", ListV(<<>>))
    IN IF ~Truthy(c) THEN <<>> ELSE Iterate(c)

NodeOf(t) ==
    [id |-> DictGet(t, "name", NoneV),
     tooltip |-> DictGet(t, "tooltip", StrV("")),
     type |-> DictGet(t, "type", StrV(""))]

LinkOf(parent, t) == [source |-> parent, target |-> DictGet(t, "name", NoneV)]

\* "if parent_name:"
LinkNeeded(parent_name) == Truthy(parent_name)

\* a faulty variant: the link to each child is appended by the parent's call,
\* before the child's own call has appended the child's node
FlattenCall_links_first ==
    /\ gpc = "flatten"
    /\ work # <<>>
    /\ LET t == Head(work).tree
       IN IF t.t # "dict"
          THEN /\ gpc' = "raised"
               /\ UNCHANGED <<work, nodes, links>>
          ELSE /\ nodes' = Append(nodes, NodeOf(t))
               /\ links' = IF LinkNeeded(DictGet(t, "name", NoneV))
                           THEN links \o [i \in 1..Len(Children(t)) |->
                                             [source |-> DictGet(t, "name", NoneV),
                                              target |-> IF Children(t)[i].t = "dict"
                                                         THEN DictGet(Children(t)[i], "name", NoneV)
                                                         ELSE NoneV]]
                           ELSE links
               /\ work' = [i \in 1..Len(Children(t)) |->
                               Frame(Children(t)[i], DictGet(t, "name", NoneV))]
                          \o Tail(work)
               /\ gpc' = "flatten"
    /\ UNCHANGED <<tree, center_title, parseVars, sessionVars>>

\* the body of flatten_tree_to_nodes_links up to the loop, for the call at the
\* head of work; the loop's calls are queued before the pending ones (pre-order)
FlattenCall ==
    /\ gpc = "flatten"
    /\ work # <<>>
    /\ LET t == Head(work).tree
           parent == Head(work).parent_name
       IN IF t.t # "dict"
          THEN /\ gpc' = "raised"
               /\ UNCHANGED <<work, nodes, links>>
          ELSE /\ nodes' = Append(nodes, NodeOf(t))
               /\ links' = IF LinkNeeded(parent) THEN Append(links, LinkOf(parent, t))
                           ELSE links
               /\ work' = [i \in 1..Len(Children(t)) |->
                               Frame(Children(t)[i], DictGet(t, "name", NoneV))]
                          \o Tail(work)
               /\ gpc' = "flatten"
    /\ UNCHANGED <<tree, center_title, parseVars, sessionVars>>

\* n["group"] = 0 if n["id"] == center_title else 1
Group(n, title) == IF n.id = title THEN 0 ELSE 1

\* create_multilevel_mindmap_html after flatten_tree_to_nodes_links returned:
\* the groups, then the page, where center_title.replace needs a str
MarkRoot ==
    /\ gpc = "flatten"
    /\ work = <<>>
    /\ nodes' = [i \in 1..Len(nodes) |->
                    [id |-> nodes[i].id, tooltip |-> nodes[i].tooltip,
                     type |-> nodes[i].type, group |-> Group(nodes[i], center_title)]]
    /\ gpc' = IF center_title.t = "str" THEN "done" ELSE "raised"
    /\ UNCHANGED <<tree, center_title, work, links, parseVars, sessionVars>>

SessionKeys == {"file_hash", "full_text", "pdf_title", "concept_map",
                "structure_map", "argument_map", "view_mode"}
Modes == {"concept_map", "structure_map", "argument_map"}
Nothing == [view |-> "", nodes |-> <<>>, links |-> <<>>]

(***************************************************************************)
(* Values of the variables a specification does not use.                   *)
(***************************************************************************)
NoOp == [fn |-> "off", want_list |-> FALSE]
ParseOff == raw = Unavailable /\ op = NoOp /\ result = NoneV
GraphOff ==
    /\ tree = NoneV
    /\ center_title = NoneV
    /\ work = <<>>
    /\ nodes = <<>>
    /\ links = <<>>
    /\ gpc = "off"

SessionOff ==
    /\ uploaded_file = NoneV
    /\ session_state = [k \in SessionKeys |-> NoneV]
    /\ pc = "off"
    /\ llm = [m \in Modes |-> Unavailable]
    /\ origin = [k \in SessionKeys |-> ""]
    /\ calls = [m \in Modes |-> 0]
    /\ same_doc = FALSE
    /\ exc = "none"
    /\ rendered = Nothing

(***************************************************************************)
(* SpecParse: one call of robust_json_extract or of an LLM call wrapper on *)
(* one collaborator outcome.                                               *)
(***************************************************************************)
Called(fn, want_list) == [fn |-> fn, want_list |-> want_list]

CallRobustJsonExtract ==
    /\ op.fn = "input"
    /\ raw.ok
    /\ \E want_list \in BOOLEAN :
        /\ result' = robust_json_extract(raw.text, want_list)
        /\ op' = Called("robust_json_extract", want_list)
    /\ UNCHANGED <<raw, graphVars, sessionVars>>

CallGetConceptMap ==
    /\ op.fn = "input"
    /\ result' = get_concept_map(raw, MAX_TERMS)
    /\ op' = Called("get_concept_map", TRUE)
    /\ UNCHANGED <<raw, graphVars, sessionVars>>

CallGetStructureMap ==
    /\ op.fn = "input"
    /\ result' = get_structure_map(raw)
    /\ op' = Called("get_structure_map", FALSE)
    /\ UNCHANGED <<raw, graphVars, sessionVars>>

CallGetArgumentMap ==
    /\ op.fn = "input"
    /\ result' = get_argument_map(raw)
    /\ op' = Called("get_argument_map", FALSE)
    /\ UNCHANGED <<raw, graphVars, sessionVars>>

InitParse ==
    /\ raw \in {Completion(text) : text \in Texts} \cup {Unavailable}
    /\ op = Called("input", FALSE)
    /\ result = NoneV
    /\ GraphOff
    /\ SessionOff

NextParse ==
    \/ CallRobustJsonExtract
    \/ CallGetConceptMap
    \/ CallGetStructureMap
    \/ CallGetArgumentMap

SpecParse == InitParse /\ [][NextParse]_vars

(***************************************************************************)
(* SpecTree: create_multilevel_mindmap_html on one tree, as the display    *)
(* code calls it for a structure or argument map: center_title is          *)
(* tree.get("name", "Root").                                               *)
(***************************************************************************)
NodeNames == {"", "A", "B"}

\* a tree node as the prompts ask for it; a leaf has no "children"
Node(name, kids) ==
    IF kids = <<>> THEN DictV(<<Pair("name", StrV(name))>>)
    ELSE DictV(<<Pair("name", StrV(name)), Pair("children", ListV(kids))>>)

RECURSIVE TreesOf(_), Forests(_)
\* the trees of exactly n nodes, the sequences of trees of n nodes in all
TreesOf(n) == {Node(name, kids) : name \in NodeNames, kids \in Forests(n - 1)}
Forests(n) ==
    IF n = 0 THEN {<<>>}
    ELSE UNION {{<<t>> \o f : t \in TreesOf(k), f \in Forests(n - k)} : k \in 1..n}

Trees == UNION {TreesOf(n) : n \in 1..MaxNodes}

\* create_multilevel_mindmap_html calls flatten_tree_to_nodes_links(tree)
CreateMindmap ==
    /\ gpc = "tree"
    /\ work' = <<Frame(tree, NoneV)>>
    /\ nodes' = <<>>
    /\ links' = <<>>
    /\ gpc' = "flatten"
    /\ UNCHANGED <<tree, center_title, parseVars, sessionVars>>

InitTree ==
    /\ tree \in Trees
    /\ center_title = DictGet(tree, "name", StrV("Root"))
    /\ work = <<>>
    /\ nodes = <<>>
    /\ links = <<>>
    /\ gpc = "tree"
    /\ ParseOff
    /\ SessionOff

NextTree ==
    \/ CreateMindmap
    \/ FlattenCall
    \/ MarkRoot

SpecTree == InitTree /\ [][NextTree]_vars

(***************************************************************************)
(* SpecConcept: the concept view of one collaborator outcome:              *)
(* get_concept_map, concept_map_to_tree with the document's title as root, *)
(* create_multilevel_mindmap_html.                                         *)
(***************************************************************************)
Entry(term, tooltip) == DictV(<<Pair("term", StrV(term)), Pair("tooltip", StrV(tooltip))>>)
WellFormedEntries == {Entry("T1", "d1"), Entry("T2", "d2")}
MalformedEntries == {DictV(<<Pair("term", StrV("T1"))>>), DictV(<<Pair("tooltip", StrV("d1"))>>)}
ConceptLists == {ListV(q) : q \in SeqsUpTo(WellFormedEntries \cup MalformedEntries, MaxEntries)}
Titles == {StrV("Untitled Document"), StrV("T1")}

\* the display code's concept_map_to_tree(concept_map, root_title=pdf_title);
\* center_title holds pdf_title
ConceptMapToTree ==
    /\ gpc = "glossary"
    /\ op.fn = "get_concept_map"
    /\ ~Raised(result)
    /\ tree' = concept_map_to_tree(result, center_title)
    /\ gpc' = IF Raised(tree') THEN "raised" ELSE "tree"
    /\ UNCHANGED <<center_title, work, nodes, links, parseVars, sessionVars>>

InitConcept ==
    /\ raw \in {Completion(text) : text \in Wrapped(ConceptLists)} \cup {Unavailable}
    /\ op = Called("input", TRUE)
    /\ result = NoneV
    /\ tree = NoneV
    /\ center_title \in Titles
    /\ work = <<>>
    /\ nodes = <<>>
    /\ links = <<>>
    /\ gpc = "glossary"
    /\ SessionOff

NextConcept ==
    \/ CallGetConceptMap
    \/ ConceptMapToTree
    \/ CreateMindmap
    \/ FlattenCall
    \/ MarkRoot

SpecConcept == InitConcept /\ [][NextConcept]_vars

(***************************************************************************)
(* Spec: the Streamlit session.  Every interaction with a widget reruns    *)
(* the script from the top with st.session_state kept; an uncaught         *)
(* exception ends the run where it is raised.                              *)
(***************************************************************************)
Docs == {"pdf" \o ToString(i) : i \in 1..NumDocs}
File(data) == [t |-> "file", s |-> data, items |-> <<>>]
Views == {"Concept Map", "Structure Map", "Argument Map"}

\* hashlib.md5(data).hexdigest(): equal bytes, equal digest
compute_file_hash(file) == StrV("md5:" \o file.s)

\* extract_text_from_pdf on a file fitz can open
PdfText(file) == StrV("text of " \o file.s)

\* what the collaborator may answer to one prompt
RespConceptList == Dumps(ListV(<<Entry("T1", "d1"), Entry("T2", "d2")>>))
RespTree == Dumps(Node("A", <<Node("B", <<>>)>>))
RespProse == <<"Here you go:">>
Responses == {Unavailable, Completion(RespProse), Completion(RespConceptList),
              Completion(RespTree)}

\* the file_uploader and radio widgets as the user left them; the script starts
Interact ==
    /\ pc = "idle"
    /\ uploaded_file' \in {NoneV} \cup {File(d) : d \in Docs}
    /\ \E v \in Views : session_state' = [session_state EXCEPT !.view_mode = StrV(v)]
    /\ exc' = "none"
    /\ rendered' = Nothing
    /\ pc' = "hash"
    /\ llm' = [m \in Modes |-> Unavailable]
    /\ same_doc' = FALSE
    /\ UNCHANGED <<origin, calls, parseVars, graphVars>>

\* a faulty variant: the new hash is not stored when the block is entered
HashCheck_unstored ==
    /\ pc = "hash"
    /\ IF uploaded_file # NoneV
          /\ session_state.file_hash # compute_file_hash(uploaded_file)
       THEN /\ origin' = [origin EXCEPT !.file_hash = uploaded_file.s]
            /\ calls' = [m \in Modes |-> 0]
            /\ same_doc' = FALSE
            /\ pc' = "extract_text"
            /\ UNCHANGED session_state
       ELSE /\ pc' = "display"
            /\ same_doc' = (uploaded_file # NoneV)
            /\ UNCHANGED <<session_state, origin, calls>>
    /\ UNCHANGED <<uploaded_file, llm, exc, rendered, parseVars, graphVars>>

\* "if uploaded_file:" and the comparison of the two hashes; a new hash is stored
\* at once
HashCheck ==
    /\ pc = "hash"
    /\ IF uploaded_file # NoneV
          /\ session_state.file_hash # compute_file_hash(uploaded_file)
       THEN /\ session_state' =
                   [session_state EXCEPT !.file_hash = compute_file_hash(uploaded_file)]
            /\ origin' = [origin EXCEPT !.file_hash = uploaded_file.s]
            /\ calls' = [m \in Modes |-> 0]
            /\ same_doc' = FALSE
            /\ pc' = "extract_text"
       ELSE /\ pc' = "display"
            /\ same_doc' = (uploaded_file # NoneV)
            /\ UNCHANGED <<session_state, origin, calls>>
    /\ UNCHANGED <<uploaded_file, llm, exc, rendered, parseVars, graphVars>>

\* step 1: extract_text_from_pdf, which raises on a file fitz cannot open, and
\* get_pdf_title_from_content, which catches what it raises
ExtractText ==
    /\ pc = "extract_text"
    /\ \/ /\ \E title \in Titles :
                session_state' = [session_state EXCEPT !.full_text = PdfText(uploaded_file),
                                                       !.pdf_title = title]
          /\ origin' = [origin EXCEPT !.full_text = uploaded_file.s,
                                      !.pdf_title = uploaded_file.s]
          /\ pc' = "concept"
          /\ exc' = exc
       \/ /\ exc' = "FileDataError"
          /\ pc' = "idle"
          /\ UNCHANGED <<session_state, origin>>
    /\ UNCHANGED <<uploaded_file, llm, calls, same_doc, rendered, parseVars, graphVars>>

\* one of the steps 2 to 4: st.session_state[mode] = get_*_map(full_text), where
\* resp is what the collaborator answers to the prompt
ModeStep(mode, resp, value, after) ==
    /\ llm' = [llm EXCEPT ![mode] = resp]
    /\ calls' = [calls EXCEPT ![mode] = @ + 1]
    /\ IF Raised(value)
       THEN /\ exc' = value.s
            /\ pc' = "idle"
            /\ UNCHANGED <<session_state, origin>>
       ELSE /\ session_state' = [session_state EXCEPT ![mode] = value]
            /\ origin' = [origin EXCEPT ![mode] = uploaded_file.s]
            /\ pc' = after
            /\ exc' = exc
    /\ UNCHANGED <<uploaded_file, same_doc, rendered, parseVars, graphVars>>

ConceptStep ==
    /\ pc = "concept"
    /\ \E resp \in Responses :
        ModeStep("concept_map", resp, get_concept_map(resp, MAX_TERMS), "structure")

StructureStep ==
    /\ pc = "structure"
    /\ \E resp \in Responses :
        ModeStep("structure_map", resp, get_structure_map(resp), "argument")

ArgumentStep ==
    /\ pc = "argument"
    /\ \E resp \in Responses :
        ModeStep("argument_map", resp, get_argument_map(resp), "display")

\* "if uploaded_file and concept_map and structure_map and argument_map"
Gate ==
    /\ uploaded_file # NoneV
    /\ Truthy(session_state.concept_map)
    /\ Truthy(session_state.structure_map)
    /\ Truthy(session_state.argument_map)

Info(msg) == [view |-> msg, nodes |-> <<>>, links |-> <<>>]

\* the view of a structure or argument map: map.get raises on a list or a str
TreeView(map, msg) ==
    IF map.t # "dict"
    THEN /\ exc' = "AttributeError"
         /\ pc' = "idle"
         /\ UNCHANGED <<rendered, graphVars>>
    ELSE IF Truthy(DictGet(map, "children", NoneV))
    THEN /\ tree' = map
         /\ center_title' = DictGet(map, "name", StrV("Root"))
         /\ gpc' = "tree"
         /\ pc' = "render"
         /\ UNCHANGED <<exc, rendered, work, nodes, links>>
    ELSE /\ rendered' = Info(msg)
         /\ pc' = "idle"
         /\ UNCHANGED <<exc, graphVars>>

\* MAIN DISPLAY up to the call of create_multilevel_mindmap_html
Display ==
    /\ pc = "display"
    /\ IF ~Gate
       THEN /\ pc' = "idle"
            /\ UNCHANGED <<exc, rendered, graphVars>>
       ELSE IF session_state.view_mode = StrV("Concept Map")
       THEN LET t == concept_map_to_tree(session_state.concept_map, session_state.pdf_title)
            IN IF Raised(t)
               THEN /\ exc' = t.s
                    /\ pc' = "idle"
                    /\ UNCHANGED <<rendered, graphVars>>
               ELSE /\ tree' = t
                    /\ center_title' = session_state.pdf_title
                    /\ gpc' = "tree"
                    /\ pc' = "render"
                    /\ UNCHANGED <<exc, rendered, work, nodes, links>>
       ELSE IF session_state.view_mode = StrV("Structure Map")
       THEN TreeView(session_state.structure_map, "No structure was extracted.")
       ELSE TreeView(session_state.argument_map, "No argument structure was extracted.")
    /\ UNCHANGED <<uploaded_file, session_state, llm, origin, calls, same_doc, parseVars>>

\* st.components.v1.html(mindmap_html) and the downloads, whose text functions
\* read the map as the tree functions did; or the exception of the call
Show ==
    /\ pc = "render"
    /\ gpc \in {"done", "raised"}
    /\ IF gpc = "done"
       THEN /\ rendered' = [view |-> session_state.view_mode.s, nodes |-> nodes, links |-> links]
            /\ exc' = exc
       ELSE /\ exc' = "AttributeError"
            /\ rendered' = rendered
    /\ pc' = "idle"
    /\ tree' = NoneV
    /\ center_title' = NoneV
    /\ work' = <<>>
    /\ nodes' = <<>>
    /\ links' = <<>>
    /\ gpc' = "off"
    /\ UNCHANGED <<uploaded_file, session_state, llm, origin, calls, same_doc, parseVars>>

Init ==
    /\ uploaded_file = NoneV
    /\ session_state = [k \in SessionKeys |-> NoneV]
    /\ pc = "idle"
    /\ llm = [m \in Modes |-> Unavailable]
    /\ origin = [k \in SessionKeys |-> ""]
    /\ calls = [m \in Modes |-> 0]
    /\ same_doc = FALSE
    /\ exc = "none"
    /\ rendered = Nothing
    /\ ParseOff
    /\ GraphOff

Next ==
    \/ Interact
    \/ HashCheck
    \/ ExtractText
    \/ ConceptStep
    \/ StructureStep
    \/ ArgumentStep
    \/ Display
    \/ Show
    \/ CreateMindmap
    \/ FlattenCall
    \/ MarkRoot

Spec == Init /\ [][Next]_vars

(***************************************************************************)
(* Properties of the session (Spec).                                       *)
(***************************************************************************)
MapKeys == {"full_text", "pdf_title", "concept_map", "structure_map", "argument_map"}
ViewOf(m) ==
    CASE m = "concept_map" -> "Concept Map"
      [] m = "structure_map" -> "Structure Map"
      [] m = "argument_map" -> "Argument Map"

\* C1: a document whose text was extracted and that is processed twice in a row
\* has had exactly one call of each of get_concept_map, get_structure_map and
\* get_argument_map, and once a document of other content is processed no map of
\* an earlier document is still stored.
C1_DocumentCache ==
    pc = "idle" /\ origin.full_text = origin.file_hash =>
        /\ same_doc => \A m \in Modes : calls[m] = 1
        /\ \A m \in Modes : origin[m] \in {"", origin.file_hash}

\* C2: between runs and when the display code reads the session, every value
\* stored under full_text, pdf_title, concept_map, structure_map and argument_map
\* was derived from the document whose fingerprint is in file_hash.
C2_RecordConsistency ==
    pc \in {"idle", "display"} =>
        \A k \in MapKeys : session_state[k] # NoneV => origin[k] = origin.file_hash

\* the collaborator answered the prompt of mode m in this run with what the
\* prompt asked for
Succeeded(m) ==
    /\ calls[m] = 1
    /\ llm[m] = IF m = "concept_map" THEN Completion(RespConceptList)
                ELSE Completion(RespTree)

\* C3: after a run that processed a document, every mode whose own extraction
\* succeeded has its result stored for that document, and its view is what the
\* run rendered when that view is selected, whatever the other modes' outcomes.
C3_CrossModeIndependence ==
    pc = "idle" /\ uploaded_file # NoneV =>
        \A m \in Modes : Succeeded(m) =>
            /\ Truthy(session_state[m])
            /\ origin[m] = uploaded_file.s
            /\ session_state.view_mode = StrV(ViewOf(m)) => rendered.view = ViewOf(m)

\* C4: no run ends by an exception of a mode extraction or of the display code,
\* and every mode extraction that was called left a value for its mode.
C4_FailuresAreValues ==
    pc = "idle" =>
        /\ exc \in {"none", "FileDataError"}
        /\ \A m \in Modes : calls[m] = 1 =>
              session_state[m] # NoneV /\ origin[m] = origin.file_hash

(***************************************************************************)
(* Properties of robust_json_extract and the LLM call wrappers (SpecParse).*)
(***************************************************************************)
AllIn(toks, S) == \A i \in 1..Len(toks) : toks[i] \in S

\* C5: when the text is commentary, one non-empty JSON value v (an object, or an
\* array when want_list) and commentary, robust_json_extract returns the parse
\* of v.
C5_SalvageRecovery ==
    op.fn = "robust_json_extract" =>
        \A i \in 1..Len(raw.text), j \in 1..Len(raw.text) :
            LET v == Loads(SubSeq(raw.text, i, j)) IN
            /\ i <= j
            /\ AllIn(SubSeq(raw.text, 1, i - 1), Commentary)
            /\ AllIn(SubSeq(raw.text, j + 1, Len(raw.text)), Commentary)
            /\ v.ok
            /\ v.val.t = "dict" \/ (v.val.t = "list" /\ op.want_list)
            /\ Truthy(v.val)
            => result = v.val

\* C6: when the whole text is valid JSON, robust_json_extract returns the parse
\* of the whole text.
C6_WholeInputFirst ==
    op.fn = "robust_json_extract" /\ Loads(raw.text).ok => result = Loads(raw.text).val

\* the texts robust_json_extract hands to json.loads
Attempts(toks, want_list) ==
    {toks, ReSearch(toks, "{", "}")}
    \cup (IF want_list /\ ReSearch(toks, "{", "}") = <<>> THEN {ReSearch(toks, "[", "]")} ELSE {})

\* C7: robust_json_extract never raises; it returns None when none of its
\* attempts is valid JSON; and on that None get_concept_map returns [] and
\* get_structure_map and get_argument_map return {}, without raising.
C7_SoftFailure ==
    raw.ok =>
        /\ op.fn = "robust_json_extract" =>
              /\ ~Raised(result)
              /\ (\A a \in Attempts(raw.text, op.want_list) : ~Loads(a).ok) => result = NoneV
        /\ op.fn = "get_concept_map" /\ (\A a \in Attempts(raw.text, TRUE) : ~Loads(a).ok)
              => result = ListV(<<>>)
        /\ op.fn \in {"get_structure_map", "get_argument_map"}
              /\ (\A a \in Attempts(raw.text, FALSE) : ~Loads(a).ok)
              => result = DictV(<<>>)

\* a text with a brace slice that is no JSON and that is no JSON itself went
\* through get_concept_map
C7_Witness ==
    /\ op.fn = "get_concept_map"
    /\ raw.ok
    /\ ReSearch(raw.text, "{", "}") # <<>>
    /\ \A a \in Attempts(raw.text, TRUE) : ~Loads(a).ok
    /\ result = ListV(<<>>)

(***************************************************************************)
(* Properties of the concept view (SpecConcept).                           *)
(***************************************************************************)
IsCommentary(toks) == AllIn(toks, Commentary) /\ \E i \in 1..Len(toks) : toks[i] \in Prose

\* the pipeline ended: get_concept_map or concept_map_to_tree or the mind map
\* raised, or the mind map is made
ConceptFinished ==
    \/ op.fn = "get_concept_map" /\ Raised(result)
    \/ gpc \in {"done", "raised"}

\* C8: when the response is commentary, a JSON array of N >= 1 well-formed
\* entries and commentary, the pipeline ends with N + 1 nodes, the root titled
\* node first, and N links, the i-th from the root to the i-th term.
C8_ConceptEndToEnd ==
    \A p \in SeqsUpTo(Commentary, MaxNoise), q \in SeqsUpTo(Commentary, MaxNoise),
       es \in SeqsUpTo(WellFormedEntries, MaxEntries) :
        /\ IsCommentary(p)
        /\ IsCommentary(q)
        /\ es # <<>>
        /\ raw = Completion(p \o Dumps(ListV(es)) \o q)
        /\ ConceptFinished
        => /\ gpc = "done"
           /\ Len(nodes) = Len(es) + 1
           /\ Len(links) = Len(es)
           /\ nodes[1].id = center_title
           /\ \A i \in 1..Len(es) :
                /\ nodes[i + 1].id = Lookup(es[i], "term")
                /\ links[i] = [source |-> center_title, target |-> Lookup(es[i], "term")]

IsWellFormed(e) ==
    /\ e.t = "dict"
    /\ HasKey(e, "term") /\ Lookup(e, "term").t = "str"
    /\ HasKey(e, "tooltip") /\ Lookup(e, "tooltip").t = "str"

\* C9: when the parsed response is an array of objects, the list get_concept_map
\* returns holds exactly its well-formed entries, in their order, and
\* concept_map_to_tree does not raise on it.
C9_ConceptValidation ==
    LET parsed == robust_json_extract(raw.text, TRUE) IN
    /\ op.fn = "get_concept_map"
    /\ raw.ok
    /\ parsed.t = "list"
    /\ \A i \in 1..Len(parsed.items) : parsed.items[i].t = "dict"
    => /\ result = ListV(SelectSeq(parsed.items, IsWellFormed))
       /\ gpc # "raised"

(***************************************************************************)
(* Properties of create_multilevel_mindmap_html (SpecTree).                *)
(***************************************************************************)
RECURSIVE CountNodes(_), CountAll(_)
CountNodes(t) == 1 + CountAll(Children(t))
CountAll(ts) == IF ts = <<>> THEN 0 ELSE CountNodes(Head(ts)) + CountAll(Tail(ts))

\* C10: a tree of K nodes yields K nodes and K - 1 links, and exactly one node
\* is in group 0.
C10_TreeCounts ==
    gpc = "done" =>
        /\ Len(nodes) = CountNodes(tree)
        /\ Len(links) = CountNodes(tree) - 1
        /\ Cardinality({i \in 1..Len(nodes) : nodes[i].group = 0}) = 1


\* the ids of the nodes in a node list
Ids(ns) == {ns[j].id : j \in 1..Len(ns)}

\* a step that appends a link appends one link, whose source is the id of a node
\* that was in the list before the step and whose target is the id of the node
\* the same step appends
LinkStep ==
    Len(links') > Len(links) =>
        /\ links' = Append(links, links'[Len(links')])
        /\ links'[Len(links')].source \in Ids(nodes)
        /\ Len(nodes') = Len(nodes) + 1
        /\ SubSeq(nodes', 1, Len(nodes)) = nodes
        /\ nodes'[Len(nodes')].id = links'[Len(links')].target

\* C11: at every step of flatten_tree_to_nodes_links on a tree and in its result,
\* each link's source and target are ids of nodes in the node list; the source's
\* node was appended before the link, the target's node by the step that appends
\* the link.
C11_EdgeEndpoints ==
    /\ [](\A i \in 1..Len(links) :
              links[i].source \in Ids(nodes) /\ links[i].target \in Ids(nodes))
    /\ [][LinkStep]_vars

\* the traversal is under way, with calls pending, and has appended a link from
\* the root and a link from a node below the root
C11_Witness ==
    /\ gpc = "flatten"
    /\ work # <<>>
    /\ Len(links) >= 2
    /\ \E i \in 1..Len(links) : links[i].source # nodes[1].id
    /\ \A i \in 1..Len(links) :
           links[i].source \in Ids(nodes) /\ links[i].target \in Ids(nodes)


\* the positions of a run inside the processing block, steps 1 to 4
Processing == {"extract_text", "concept", "structure", "argument"}

\* the step stores no result of steps 1 to 4 and calls none of get_concept_map,
\* get_structure_map and get_argument_map
ResultsKept ==
    /\ \A k \in MapKeys : session_state'[k] = session_state[k]
    /\ \A m \in Modes : calls'[m] <= calls[m]

\* a step of a run with respect to the stored fingerprint:
\*  - the block is entered only by the step that stores a different fingerprint;
\*  - a run whose document has the stored fingerprint goes from the comparison to
\*    the display code, and no step outside the block computes or stores a result;
\*  - a step of the block is reached from the block's entry, within one run.
FingerprintStep ==
    /\ pc' = "extract_text" =>
           /\ pc = "hash"
           /\ session_state'.file_hash # session_state.file_hash
           /\ session_state'.file_hash = compute_file_hash(uploaded_file)
           /\ ResultsKept
    /\ (pc = "hash" /\ uploaded_file # NoneV
            /\ session_state.file_hash = compute_file_hash(uploaded_file)) =>
           pc' = "display" /\ session_state' = session_state /\ ResultsKept
    /\ pc \notin Processing => ResultsKept
    /\ pc' \in Processing \ {"extract_text"} => pc \in Processing
    /\ pc \in Processing => session_state'.file_hash = session_state.file_hash

\* C12: file_hash holds the uploaded document's fingerprint from before text
\* extraction and throughout steps 1 to 4; a run whose document has the stored
\* fingerprint skips the block, also when an earlier run ended by an exception
\* before every map was stored, so a result missing for that fingerprint is
\* computed only after a different fingerprint has been stored.
C12_FingerprintFirst ==
    /\ [](pc \in Processing =>
              session_state.file_hash = compute_file_hash(uploaded_file))
    /\ [][FingerprintStep]_vars

\* a run for the stored fingerprint has skipped the block and ended, after an
\* earlier run for that fingerprint extracted the text and the concept map and
\* ended before get_argument_map was called
C12_Witness ==
    /\ pc = "idle"
    /\ same_doc
    /\ session_state.file_hash = compute_file_hash(uploaded_file)
    /\ origin.full_text = origin.file_hash
    /\ origin.concept_map = origin.file_hash
    /\ calls.argument_map = 0
    /\ session_state.argument_map = NoneV

====
